---- MODULE Spec2Model ----
(***************************************************************************)
(* Model of the two MoviePilot plugins of this repository:                 *)
(*   - LibraryScraper / LibraryEventHandler (plugins/libraryscraper):      *)
(*     filesystem events, the processed_paths debounce set, the eviction   *)
(*     and readiness-retry timer threads, the scrape step, the observer    *)
(*     lifecycle;                                                          *)
(*   - SubscribeReminder (plugins/subscribereminder): the daily digest.    *)
(* Time is discrete; one Tick is one time unit (a second in the code).     *)
(***************************************************************************)
EXTENDS Integers, Sequences, FiniteSets, Bags, TLC

VARIABLES
    observer,         \* LibraryScraper._observer: 0 is None, h > 0 the Observer built with handler h
    alive,            \* Observer objects whose thread was started and not yet stopped
    nextH,            \* number of LibraryEventHandler objects created so far
    processed_paths,  \* LibraryEventHandler.processed_paths, per handler object
    monitor_paths,    \* LibraryScraper._monitor_paths
    exclude_paths,    \* LibraryScraper._exclude_paths
    timers,           \* bag of background_task threads that have not run their task yet
    locked,           \* environment: media files that cannot be opened for reading now
    since,            \* history: time units since the running handler last inserted the directory
    win,              \* history: the debounce window the running handler opened last, per directory
    scrapes,          \* history: _scrape_directory invocations per directory and window (saturates at 2)
    last,             \* history: summary of the last run of a program entry point
    subscribes,       \* host: what SubscribeOper().list() returns
    tmdb,             \* host: what the episode and release lookups return
    digest,           \* history: summary of the last run of SubscribeReminder.__send_notify
    race,             \* the observer thread's position inside _handle_event / _process_directory
    reminder          \* SubscribeReminder: its attributes, its scheduler, the saved configuration

svars == <<observer, alive, nextH, processed_paths, monitor_paths, exclude_paths,
           timers, locked, since, win, scrapes, last>>

dvars == <<subscribes, tmdb, digest>>

\* the variables outside the atomic actions of LibraryScraper
ovars == <<dvars, race, reminder>>

vars == <<svars, ovars>>

----------------------------------------------------------------------------
(* Bounds of the model *)

MaxHandlers == 2      \* LibraryEventHandler objects created (init_plugin calls that start a monitor)
MaxRetryTimers == 2   \* readiness-retry threads pending at once per directory

(* Program constants *)

DEBOUNCE_DELAY == 10  \* background_task(10, ...discard...)
RETRY_DELAY == 2      \* background_task(2, ...handle_media_directory...)
DOC_MAX_RETRIES == 3  \* get_form: "automatically retries locked files (at most 3 times)"

\* The failed-probe counter of a retry chain is a history value; it saturates
\* one above the documented cap, so its last value stands for "more than the cap".
PollsCap == DOC_MAX_RETRIES + 1

\* Names of debounce windows.  A window is named while the running handler has it
\* open or a retry chain started in it is pending; names are reused afterwards.
Windows == 1..(MaxRetryTimers + 1)

----------------------------------------------------------------------------
(* Paths.  A path is the sequence of its components. *)

P_MEDIA == <<"media">>
P_MOVIES == <<"media", "movies">>
P_TEMP == <<"media", "temp">>
P_OTHER == <<"other">>
DA == <<"media", "movies", "a">>
DX == <<"media", "temp", "x">>

Dirs == {DA, DX}

\* settings.RMT_MEDIAEXT (host setting): lower-case suffixes
RMT_MEDIAEXT == {".mkv", ".mp4"}

\* str.lower() on the suffixes that occur
Lower(s) ==
    CASE s = ".MKV" -> ".mkv"
      [] s = ".MP4" -> ".mp4"
      [] OTHER -> s

\* A filesystem entry: parent directory, name stem, suffix, and whether it is a directory.
File(d, stem, suffix) == [dir |-> d, stem |-> stem, suffix |-> suffix, is_dir |-> FALSE]
EmptyPath == [dir |-> <<>>, stem |-> "", suffix |-> "", is_dir |-> FALSE]

\* directory.iterdir(): the entries of each directory, in listing order
IterDir(d) ==
    IF d = DA THEN <<File(DA, "info", ".nfo"), File(DA, "f1", ".mkv"), File(DA, "f2", ".MKV")>>
    ELSE IF d = DX THEN <<File(DX, "f1", ".mp4")>>
    ELSE <<>>

MediaFiles == {File(DA, "f1", ".mkv"), File(DA, "f2", ".MKV"), File(DX, "f1", ".mp4")}

\* the media files a writer may hold locked (DA/f2 is always readable)
Lockable == {File(DA, "f1", ".mkv"), File(DX, "f1", ".mp4")}

FilesIn(D) == {f \in Lockable : f.dir \in D}

\* The paths a filesystem event can carry: the media files, and paths the
\* handler ignores (the empty string, a non-media file, directories)
IgnoredPaths ==
    { EmptyPath,
      File(DA, "info", ".nfo"),
      [dir |-> P_MOVIES, stem |-> "a", suffix |-> "", is_dir |-> TRUE],
      [dir |-> DX, stem |-> "sub.mkv", suffix |-> ".mkv", is_dir |-> TRUE] }

EventPaths == MediaFiles \cup IgnoredPaths

EventsIn(D) == {p \in EventPaths : p.dir \in D \/ p \in IgnoredPaths}

\* PurePath.is_relative_to(base): base is a component-wise prefix of p
is_relative_to(p, base) ==
    /\ Len(base) <= Len(p)
    /\ SubSeq(p, 1, Len(base)) = base

----------------------------------------------------------------------------
(* Configurations init_plugin can be called with.  NoConfig is None / {}. *)

NoConfig == [none |-> TRUE]

MonPlain == << [path |-> P_MEDIA, mtype |-> "none"] >>
MonTyped == << [path |-> P_MOVIES, mtype |-> "movie"], [path |-> P_MEDIA, mtype |-> "none"] >>

\* nested monitored paths that both carry a hint, in the two orders, and a
\* hint on a path that does not contain DA
MonNested == << [path |-> P_MEDIA, mtype |-> "tv"], [path |-> P_MOVIES, mtype |-> "movie"] >>
MonNestedInner == << [path |-> P_MOVIES, mtype |-> "movie"], [path |-> P_MEDIA, mtype |-> "tv"] >>
MonElsewhere == << [path |-> P_TEMP, mtype |-> "tv"], [path |-> P_MEDIA, mtype |-> "none"] >>

ExclTemp == << P_TEMP >>            \* DX is nested under it
ExclExact == << P_OTHER, DX >>      \* DX equals the second entry
ExclNone == << >>

Configs ==
    { [enabled |-> TRUE, monitor_paths |-> MonPlain, exclude_paths |-> ExclTemp],
      [enabled |-> TRUE, monitor_paths |-> MonTyped, exclude_paths |-> ExclExact],
      [enabled |-> TRUE, monitor_paths |-> MonPlain, exclude_paths |-> ExclNone],
      [enabled |-> FALSE, monitor_paths |-> MonPlain, exclude_paths |-> ExclTemp] }

----------------------------------------------------------------------------
(* Timer threads.  background_task(delay, task) starts a daemon thread that *)
(* waits `delay` on an Event nobody sets and then runs the task.            *)
(*   kind "evict": task is handler h's processed_paths.discard(dir)         *)
(*   kind "retry": task is handle_media_directory(dir)                      *)
(* polls and w are history fields of a retry chain: polls counts the failed *)
(* readiness probes of the chain so far, w is the debounce window of the    *)
(* event that started the chain.                                            *)

\* an eviction thread that waits one time unit longer than the window
EvictTimer_late(h, d) ==
    [kind |-> "evict", dir |-> d, left |-> DEBOUNCE_DELAY + 1, h |-> h, polls |-> 0, w |-> 0]

EvictTimer(h, d) ==
    [kind |-> "evict", dir |-> d, left |-> DEBOUNCE_DELAY, h |-> h, polls |-> 0, w |-> 0]

RetryTimer(d, n, w) ==
    [kind |-> "retry", dir |-> d, left |-> RETRY_DELAY, h |-> 0, polls |-> n, w |-> w]

One(t) == SetToBag({t})

RetryPending(d) == {t \in BagToSet(timers) : t.kind = "retry" /\ t.dir = d}

RECURSIVE SumCopies(_, _)
SumCopies(S, B) ==
    IF S = {} THEN 0
    ELSE LET t == CHOOSE x \in S : TRUE
         IN  B[t] + SumCopies(S \ {t}, B)

NumRetryPending(d) == SumCopies(RetryPending(d), timers)

\* one time unit passes for a waiting thread
Waited(t) == [t EXCEPT !.left = IF t.left > 0 THEN t.left - 1 ELSE 0]

AllWaited(B) ==
    LET D == {Waited(t) : t \in BagToSet(B)}
    IN  [r \in D |-> SumCopies({t \in BagToSet(B) : Waited(t) = r}, B)]

----------------------------------------------------------------------------
(* LibraryScraper: pure steps *)

\* _is_excluded comparing with == instead of is_relative_to
_is_excluded_exact(path, excl) ==
    \E i \in 1..Len(excl) : path = excl[i]

\* _is_excluded: the for loop over self._exclude_paths, True at the first hit
RECURSIVE _is_excluded(_, _)
_is_excluded(path, excl) ==
    IF excl = <<>> THEN FALSE
    ELSE IF is_relative_to(path, Head(excl)) THEN TRUE
    ELSE _is_excluded(path, Tail(excl))

\* open(file, 'rb') raises IOError on a file locked by its writer
OpenRaises(file, lk) == file \in lk

\* _check_files_ready: opens every media file of the listing in order; the first
\* IOError leaves the loop through the except clause with False
RECURSIVE FilesReadyFrom(_, _)
FilesReadyFrom(listing, lk) ==
    IF listing = <<>> THEN TRUE
    ELSE LET file == Head(listing)
         IN  IF ~file.is_dir /\ Lower(file.suffix) \in RMT_MEDIAEXT /\ OpenRaises(file, lk)
             THEN FALSE
             ELSE FilesReadyFrom(Tail(listing), lk)

\* _check_files_ready that is satisfied as soon as one media file opens
_check_files_ready_any(directory, lk) ==
    \/ \A i \in 1..Len(IterDir(directory)) :
          Lower(IterDir(directory)[i].suffix) \notin RMT_MEDIAEXT
    \/ \E i \in 1..Len(IterDir(directory)) :
          /\ Lower(IterDir(directory)[i].suffix) \in RMT_MEDIAEXT
          /\ ~OpenRaises(IterDir(directory)[i], lk)

_check_files_ready(directory, lk) == FilesReadyFrom(IterDir(directory), lk)

\* What the host services do in one scrape: the recognizer returns a media
\* identity, returns None or raises; obtain_images and scrape_metadata return or
\* raise.  A call that raised, or found nothing, leaves the later ones "ok".
Outcomes ==
    { o \in [recog : {"info", "none", "raise"}, images : {"ok", "raise"},
             meta : {"ok", "raise"}] :
        /\ o.recog # "info" => (o.images = "ok" /\ o.meta = "ok")
        /\ o.images = "raise" => o.meta = "ok" }

\* next(f for f in directory.iterdir() if f.suffix.lower() in RMT_MEDIAEXT, None)
RECURSIVE SampleFile(_)
SampleFile(listing) ==
    IF listing = <<>> THEN EmptyPath
    ELSE IF Lower(Head(listing).suffix) \in RMT_MEDIAEXT THEN Head(listing)
    ELSE SampleFile(Tail(listing))

\* the loop of _identify_media over self._monitor_paths: the first entry that
\* contains the directory and carries a type hint decides
RECURSIVE HintFor(_, _)
HintFor(directory, mon) ==
    IF mon = <<>> THEN "none"
    ELSE IF is_relative_to(directory, Head(mon).path) /\ Head(mon).mtype # "none"
         THEN Head(mon).mtype
    ELSE HintFor(directory, Tail(mon))

\* _identify_media: [mtype, info, sampled, calls, raised]
_identify_media(directory, mon, out) ==
    LET hint == HintFor(directory, mon)
        sample == SampleFile(IterDir(directory))
    IN  IF hint # "none"
        THEN [mtype |-> hint, info |-> out.recog = "info", sampled |-> FALSE,
              calls |-> <<"recognize_media">>, raised |-> out.recog = "raise"]
        ELSE IF sample = EmptyPath
        THEN [mtype |-> "none", info |-> FALSE, sampled |-> FALSE,
              calls |-> <<>>, raised |-> FALSE]
        ELSE [mtype |-> "auto", info |-> out.recog = "info", sampled |-> TRUE,
              calls |-> <<"recognize_media">>, raised |-> out.recog = "raise"]

\* the body of the try block of _scrape_directory: the calls made, in order, and
\* whether one of them raised
ScrapeBody(directory, mon, out) ==
    LET id == _identify_media(directory, mon, out)
    IN  IF id.raised THEN [calls |-> id.calls, exc |-> TRUE]
        ELSE IF ~id.info THEN [calls |-> id.calls, exc |-> FALSE]
        ELSE IF out.images = "raise"
        THEN [calls |-> id.calls \o <<"obtain_images">>, exc |-> TRUE]
        ELSE [calls |-> id.calls \o <<"obtain_images", "scrape_metadata">>,
              exc |-> out.meta = "raise"]

\* _scrape_directory whose except clause misses the exception
_scrape_directory_unguarded(directory, mon, out) ==
    LET body == ScrapeBody(directory, mon, out)
    IN  [calls |-> body.calls, raised |-> body.exc]

\* _scrape_directory: try: body; except Exception: log.  [calls, raised]
_scrape_directory(directory, mon, out) ==
    LET body == ScrapeBody(directory, mon, out)
    IN  [calls |-> body.calls, raised |-> FALSE]

Min(a, b) == IF a < b THEN a ELSE b

\* handle_media_directory giving up after DOC_MAX_RETRIES failed probes
handle_media_directory_capped(directory, excl, mon, lk, n, w, out) ==
    IF _is_excluded(directory, excl)
    THEN [op |-> "excluded", spawn |-> EmptyBag, scraped |-> 0, calls |-> <<>>,
          raised |-> FALSE]
    ELSE IF ~_check_files_ready(directory, lk)
    THEN [op |-> "retry",
          spawn |-> IF n >= DOC_MAX_RETRIES THEN EmptyBag
                    ELSE One(RetryTimer(directory, Min(n + 1, PollsCap), w)),
          scraped |-> 0, calls |-> <<>>, raised |-> FALSE]
    ELSE LET r == _scrape_directory(directory, mon, out)
         IN  [op |-> "scrape", spawn |-> EmptyBag, scraped |-> 1, calls |-> r.calls,
              raised |-> r.raised]

\* handle_media_directory(directory), run in a chain that has failed n probes so
\* far and was started in window w.  The effect of the run:
\*   op      which return of the method was taken
\*   spawn   the background_task threads it started
\*   scraped how many times it invoked _scrape_directory
\*   calls   the host calls the scrape step made
\*   raised  whether an exception left the method
handle_media_directory(directory, excl, mon, lk, n, w, out) ==
    IF _is_excluded(directory, excl)
    THEN [op |-> "excluded", spawn |-> EmptyBag, scraped |-> 0, calls |-> <<>>,
          raised |-> FALSE]
    ELSE IF ~_check_files_ready(directory, lk)
    THEN [op |-> "retry", spawn |-> One(RetryTimer(directory, Min(n + 1, PollsCap), w)),
          scraped |-> 0, calls |-> <<>>, raised |-> FALSE]
    ELSE LET r == _scrape_directory(directory, mon, out)
         IN  [op |-> "scrape", spawn |-> EmptyBag, scraped |-> 1, calls |-> r.calls,
              raised |-> r.raised]

\* _process_directory without the check of processed_paths
_process_directory_nocheck(h, directory, pp, excl, mon, lk, w, out) ==
    LET e == handle_media_directory(directory, excl, mon, lk, 0, w, out)
    IN  [op |-> e.op, insert |-> TRUE,
         spawn |-> One(EvictTimer(h, directory)) (+) e.spawn,
         scraped |-> e.scraped, calls |-> e.calls, raised |-> e.raised]

\* LibraryEventHandler._process_directory: the effect of handle_media_directory
\* and insert, whether the directory was added to processed_paths (FALSE on the
\* early return for a directory already in it)
_process_directory(h, directory, pp, excl, mon, lk, w, out) ==
    IF directory \in pp[h]
    THEN [op |-> "suppressed", insert |-> FALSE, spawn |-> EmptyBag, scraped |-> 0,
          calls |-> <<>>, raised |-> FALSE]
    ELSE LET e == handle_media_directory(directory, excl, mon, lk, 0, w, out)
         IN  [op |-> e.op, insert |-> TRUE,
              spawn |-> One(EvictTimer(h, directory)) (+) e.spawn,
              scraped |-> e.scraped, calls |-> e.calls, raised |-> e.raised]

\* _handle_event without the tests of lines 39-45
_handle_event_unfiltered(h, p, pp, excl, mon, lk, w, out) ==
    _process_directory(h, p.dir, pp, excl, mon, lk, w, out)

\* LibraryEventHandler._handle_event
_handle_event(h, p, pp, excl, mon, lk, w, out) ==
    IF p = EmptyPath \/ p.is_dir \/ Lower(p.suffix) \notin RMT_MEDIAEXT
    THEN [op |-> "ignored", insert |-> FALSE, spawn |-> EmptyBag, scraped |-> 0,
          calls |-> <<>>, raised |-> FALSE]
    ELSE _process_directory(h, p.dir, pp, excl, mon, lk, w, out)

----------------------------------------------------------------------------
(* State *)

\* a run that does not reach the scrape step calls no host service: one outcome
\* stands for all of them
OutcomeOk == [recog |-> "info", images |-> "ok", meta |-> "ok"]

\* The summary of a run of an entry point (an event handler, a retry thread's
\* task, init_plugin, stop_service):
\*   op, dir     what ran and the directory it processed
\*   by          "event", "timer" or "host": the thread that ran it
\*   unreadable  whether a media file of the directory was locked when it ran
\*   sched       the readiness retries it scheduled
\*   scraped     its invocations of _scrape_directory
\*   out, calls  what the host services did and the calls made to them, in order
\*   raised      whether an exception left the entry point
\*   mtype       the media type its recognition was asked with ("auto": the
\*               type MetaInfoPath derives from the sampled file)
\*   sampled     whether it sampled a media file of the directory
NoRun == [op |-> "none", dir |-> <<>>, by |-> "none", unreadable |-> FALSE, sched |-> 0,
          scraped |-> 0, out |-> OutcomeOk, calls |-> <<>>, raised |-> FALSE,
          mtype |-> "none", sampled |-> FALSE]

\* what the _identify_media of a run of handle_media_directory did (nothing, if
\* the run did not reach the scrape step)
Identified(e, directory, mon, out) ==
    IF e.scraped = 1 THEN _identify_media(directory, mon, out)
    ELSE [mtype |-> "none", sampled |-> FALSE]

\* some media file of directory d is held by its writer
AnyLocked(d, lk) == \E f \in MediaFiles : f.dir = d /\ f \in lk

----------------------------------------------------------------------------
(* SubscribeReminder: the daily digest (__send_notify).  Lines 149-171 of    *)
(* the source are indented as if they left the method; they are modelled as  *)
(* the rest of the method body, which is how they read.                      *)

\* Dates as the host hands them over; NoDate is None.
Today == "2024-05-01"
Other == "2024-05-02"
NoDate == "NoDate"

\* datetime.now().date().strftime("%Y-%m-%d")
current_date == Today

\* str(date): the text of the date, "None" for None
StrDate(d) == IF d = NoDate THEN "None" ELSE d

\* Text is a sequence of one-character strings.
Digits == <<"0", "1", "2", "3", "4", "5", "6", "7", "8", "9">>

\* str(n) of a natural number
RECURSIVE Str(_)
Str(n) == IF n < 10 THEN <<Digits[n + 1]>> ELSE Str(n \div 10) \o <<Digits[(n % 10) + 1]>>

\* s.rjust(width, fill)
RECURSIVE rjust(_, _, _)
rjust(s, width, fill) == IF Len(s) >= width THEN s ELSE rjust(<<fill>> \o s, width, fill)

\* Subscriptions of the store.  type "tv" is the host's "电视剧", anything else
\* is handled as a movie; tmdbid 0 and season 0 stand for None (falsy).
ShowB  == [name |-> "Show B",  year |-> "2023", type |-> "tv",    tmdbid |-> 1, season |-> 1]
MovieA == [name |-> "Movie A", year |-> "2024", type |-> "movie", tmdbid |-> 2, season |-> 0]
ShowC  == [name |-> "Show C",  year |-> "2022", type |-> "tv",    tmdbid |-> 0, season |-> 1]
ShowD  == [name |-> "Show D",  year |-> "2021", type |-> "tv",    tmdbid |-> 4, season |-> 0]
MovieE == [name |-> "Movie E", year |-> "2020", type |-> "movie", tmdbid |-> 0, season |-> 0]
ShowF  == [name |-> "Show F",  year |-> "2019", type |-> "tv",    tmdbid |-> 3, season |-> 12]

Catalogue == <<ShowB, MovieA, ShowC, ShowD, MovieE, ShowF>>

\* the entries of Catalogue whose index is in `keep`, in the order of Catalogue
RECURSIVE Selection(_, _)
Selection(keep, i) ==
    IF i > Len(Catalogue) THEN <<>>
    ELSE (IF i \in keep THEN <<Catalogue[i]>> ELSE <<>>) \o Selection(keep, i + 1)

\* what SubscribeOper().list() may return: every selection, the empty one included
Stores == { Selection(keep, 1) : keep \in SUBSET (1..Len(Catalogue)) }

\* What a lookup does: "ok" with its result, "none" (None or an empty list), or
\* "raise".
Episode(n, d) == [episode_number |-> n, air_date |-> d]
Table(rows) == [status |-> "ok", rows |-> rows]
NoTable == [status |-> "none", rows |-> <<>>]
TableRaises == [status |-> "raise", rows |-> <<>>]
Info(d) == [status |-> "ok", release_date |-> d]
NoInfo == [status |-> "none", release_date |-> NoDate]
InfoRaises == [status |-> "raise", release_date |-> NoDate]

\* Season 1 of Show B has episodes 3, 4, 5; season 12 of Show F has 7 and 12;
\* TMDB knows a season 0 (specials) of Show D with an episode out today.
TablesB ==
    { Table(<<Episode(3, d3), Episode(4, d4), Episode(5, d5)>>) :
        d3 \in {Today, Other, NoDate}, d4 \in {Today, Other, NoDate}, d5 \in {Today, Other, NoDate} }
    \cup {NoTable, TableRaises}
TablesF == { Table(<<Episode(7, d7), Episode(12, d12)>>) : d7 \in {Today, Other}, d12 \in {Today, Other} }
TableD == Table(<<Episode(1, Today)>>)
InfosA == { Info(d) : d \in {Today, Other, NoDate} } \cup {NoInfo, InfoRaises}

\* the host's data: episode tables by TMDB id, release info by TMDB id
TmdbData ==
    { [eps |-> [k \in {1, 3, 4} |-> IF k = 1 THEN tb ELSE IF k = 3 THEN tf ELSE TableD],
       rel |-> [k \in {2} |-> ia]] : tb \in TablesB, tf \in TablesF, ia \in InfosA }

\* self.tmdb.tmdb_episodes(tmdbid, season): the host has one season per show
tmdb_episodes(data, tmdbid, season) ==
    IF tmdbid \in DOMAIN data.eps THEN data.eps[tmdbid] ELSE NoTable

\* self.media.recognize_media(tmdbid, mtype=MOVIE)
recognize_movie(data, tmdbid) ==
    IF tmdbid \in DOMAIN data.rel THEN data.rel[tmdbid] ELSE NoInfo

\* lines 123-127: the episode numbers whose air date is today, in lookup order
RECURSIVE EpisodesToday(_, _)
EpisodesToday(rows, i) ==
    IF i > Len(rows) THEN <<>>
    ELSE (IF rows[i].air_date # NoDate /\ StrDate(rows[i].air_date) = current_date
          THEN <<rows[i].episode_number>> ELSE <<>>) \o EpisodesToday(rows, i + 1)

\* lines 133-134: the episode label
EpisodeLabel(episodes) ==
    IF Len(episodes) > 1
    THEN <<"E">> \o rjust(Str(episodes[1]), 2, "0") \o <<"-", "E">>
            \o rjust(Str(episodes[Len(episodes)]), 2, "0")
    ELSE <<"E">> \o rjust(Str(episodes[1]), 2, "0")

\* line 132: the season label
SeasonLabel(season) == <<"S">> \o rjust(Str(season), 2, "0")

\* lines 131, 146: f"{subscribe.name} ({subscribe.year})"
DisplayName(s) == <<s.name, " (", s.year, ")">>

\* line 115 without its season test
tv_incomplete_no_season(s) == s.tmdbid = 0

\* line 115: not subscribe.tmdbid or not subscribe.season
tv_incomplete(s) == s.tmdbid = 0 \/ s.season = 0

\* The loop of lines 112-147 from subscription i on; acc is the state of the
\* method: the two lists, the lookups made so far, whether a lookup raised.
NoAcc == [tv |-> <<>>, movie |-> <<>>, lookups |-> <<>>, raised |-> FALSE]

Looked(acc, call, s) ==
    [acc EXCEPT !.lookups = Append(@, [call |-> call, tmdbid |-> s.tmdbid, season |-> s.season])]

RECURSIVE Scan(_, _, _, _)
Scan(subs, data, i, acc) ==
    IF i > Len(subs) THEN acc
    ELSE LET s == subs[i] IN
      IF s.type = "tv"
      THEN IF tv_incomplete(s) THEN Scan(subs, data, i + 1, acc)
           ELSE LET episodes_info == tmdb_episodes(data, s.tmdbid, s.season)
                    acc1 == Looked(acc, "tmdb_episodes", s)
                    episodes == EpisodesToday(episodes_info.rows, 1)
                IN  IF episodes_info.status = "raise" THEN [acc1 EXCEPT !.raised = TRUE]
                    ELSE IF episodes_info.status = "none" \/ episodes_info.rows = <<>>
                    THEN Scan(subs, data, i + 1, acc1)
                    ELSE IF episodes # <<>>
                    THEN Scan(subs, data, i + 1,
                              [acc1 EXCEPT !.tv = Append(@, [name |-> DisplayName(s),
                                                              season |-> SeasonLabel(s.season),
                                                              episode |-> EpisodeLabel(episodes)])])
                    ELSE Scan(subs, data, i + 1, acc1)
      ELSE IF s.tmdbid = 0 THEN Scan(subs, data, i + 1, acc)
           ELSE LET mediainfo == recognize_movie(data, s.tmdbid)
                    acc1 == Looked(acc, "recognize_media", s)
                IN  IF mediainfo.status = "raise" THEN [acc1 EXCEPT !.raised = TRUE]
                    ELSE IF mediainfo.status = "none" THEN Scan(subs, data, i + 1, acc1)
                    ELSE IF StrDate(mediainfo.release_date) = current_date
                    THEN Scan(subs, data, i + 1,
                              [acc1 EXCEPT !.movie = Append(@, [name |-> DisplayName(s)])])
                    ELSE Scan(subs, data, i + 1, acc1)

\* Lines 153-164: the text, a sequence of lines.  A TV block is a head line
\* (the TV icon and the name), a line with the season and episode labels, and
\* an empty line; a movie block is a head line (the film icon) and an empty line.
TvBlock(sub) ==
    << [kind |-> "tv", name |-> sub.name],
       [kind |-> "episodes", season |-> sub.season, episode |-> sub.episode],
       [kind |-> "empty"] >>

MovieBlock(sub) == << [kind |-> "movie", name |-> sub.name], [kind |-> "empty"] >>

RECURSIVE RenderFrom(_, _, _)
RenderFrom(tv, movie, i) ==
    IF i <= Len(tv) THEN TvBlock(tv[i]) \o RenderFrom(tv, movie, i + 1)
    ELSE IF i <= Len(tv) + Len(movie)
    THEN MovieBlock(movie[i - Len(tv)]) \o RenderFrom(tv, movie, i + 1)
    ELSE <<>>

Render(tv, movie) == RenderFrom(tv, movie, 1)

\* lines 167-171 without the test of the text
Notify_unconditional(text) ==
    << [mtype |-> "Subscribe", title |-> <<current_date, "reminder">>, text |-> text,
        image_path |-> "https://115.com/web_icon.jpg"] >>

\* lines 167-171: the post_message calls made for the text
Notify(text) ==
    IF text # <<>>
    THEN << [mtype |-> "Subscribe", title |-> <<current_date, "reminder">>, text |-> text,
             image_path |-> "https://115.com/web_icon.jpg"] >>
    ELSE <<>>

\* The summary of a run of __send_notify: the lookups it made, whether an
\* exception left it, the text it built, the post_message calls it made.
NoDigest == [ran |-> FALSE, lookups |-> <<>>, raised |-> FALSE, text |-> <<>>, posted |-> <<>>]

__send_notify(subs, data) ==
    IF subs = <<>> THEN [NoDigest EXCEPT !.ran = TRUE]
    ELSE LET acc == Scan(subs, data, 1, NoAcc)
             text == Render(acc.tv, acc.movie)
         IN  IF acc.raised
             THEN [ran |-> TRUE, lookups |-> acc.lookups, raised |-> TRUE,
                   text |-> <<>>, posted |-> <<>>]
             ELSE [ran |-> TRUE, lookups |-> acc.lookups, raised |-> FALSE,
                   text |-> text, posted |-> Notify(text)]

\* SubscribeReminder before any run, with an empty store
NoData == [eps |-> [k \in {1, 3, 4} |-> NoTable], rel |-> [k \in {2} |-> NoInfo]]

\* The observer thread is outside _handle_event
NoRace == [pc |-> "idle", dir |-> <<>>, h |-> 0, before |-> {}, evicted |-> FALSE]

----------------------------------------------------------------------------
(* SubscribeReminder: init_plugin, stop_service and the scheduler *)

\* Values of the "time" field of the configuration (a free text field):
\*   truthy   bool(value)
\*   isdigit  str(value).isdigit()
\*   hour     int(value), or -1 where int() raises ValueError: str.isdigit is
\*            true of digit characters such as a superscript two that int() rejects
TimeNone     == [text |-> "None",  truthy |-> FALSE, isdigit |-> FALSE, hour |-> -1]
TimeEmpty    == [text |-> "",      truthy |-> FALSE, isdigit |-> FALSE, hour |-> -1]
TimeNine     == [text |-> "9",     truthy |-> TRUE,  isdigit |-> TRUE,  hour |-> 9]
TimeTooLarge == [text |-> "24",    truthy |-> TRUE,  isdigit |-> TRUE,  hour |-> 24]
TimeWord     == [text |-> "abc",   truthy |-> TRUE,  isdigit |-> FALSE, hour |-> -1]
TimeSuper    == [text |-> "sup2",  truthy |-> TRUE,  isdigit |-> TRUE,  hour |-> -1]

Times == {TimeNone, TimeEmpty, TimeNine, TimeTooLarge, TimeWord, TimeSuper}

\* the hours CronTrigger.from_crontab accepts in "0 <hour> * * *"
CronHours == 0..23

ReminderConfigs ==
    { [enabled |-> e, onlyonce |-> o, time |-> t] : e \in BOOLEAN, o \in BOOLEAN, t \in Times }

\* The summary of a call: the configuration it was given (in a sequence, empty
\* for None), whether it raised, the system messages it put, the jobs it added.
NoCall == [op |-> "none", config |-> <<>>, raised |-> FALSE, messages |-> 0,
           cron_added |-> 0, date_added |-> 0]

\* SubscribeReminder after construction: the class attributes of lines 38-44,
\* nothing saved by update_config, no call made yet
NoReminder ==
    [enabled |-> FALSE, onlyonce |-> FALSE, time |-> TimeNone, scheduler |-> FALSE,
     jobs |-> <<>>, running |-> FALSE, saved |-> <<>>, call |-> NoCall]

\* lines 282-293: stop_service of SubscribeReminder
reminder_stop_service(r) ==
    IF r.scheduler
    THEN [r EXCEPT !.jobs = <<>>, !.running = FALSE, !.scheduler = FALSE]
    ELSE r

\* lines 75-85 with the flag left as it is
consume_onlyonce_kept(r) ==
    [r EXCEPT !.jobs = Append(@, "date"),
              !.call.date_added = @ + 1,
              !.saved = << [enabled |-> r.enabled, onlyonce |-> r.onlyonce, time |-> r.time] >>]

\* lines 75-85: the immediate job is added, the flag is reset, the
\* configuration is saved (__update_config, lines 92-97)
consume_onlyonce(r) ==
    [r EXCEPT !.jobs = Append(@, "date"),
              !.call.date_added = @ + 1,
              !.onlyonce = FALSE,
              !.saved = << [enabled |-> r.enabled, onlyonce |-> FALSE, time |-> r.time] >>]

\* lines 63-72: the cron job of the configured hour
register_cron(r) ==
    IF r.time.hour \in CronHours
    THEN [r EXCEPT !.jobs = Append(@, "cron"), !.call.cron_added = @ + 1]
    ELSE [r EXCEPT !.call.messages = @ + 1]

\* lines 87-90: the scheduler is started if it has a job
start_if_jobs(r) == IF r.jobs # <<>> THEN [r EXCEPT !.running = TRUE] ELSE r

\* lines 46-90: init_plugin of SubscribeReminder; config is <<>> for None
reminder_init_plugin(r, config) ==
    LET r0 == [reminder_stop_service(r) EXCEPT
                   !.call = [NoCall EXCEPT !.op = "init_plugin", !.config = config]]
    IN  IF config = <<>> THEN r0
        ELSE LET c == config[1]
                 r1 == [r0 EXCEPT !.enabled = c.enabled, !.onlyonce = c.onlyonce, !.time = c.time]
                 r2 == [r1 EXCEPT !.scheduler = TRUE]
             IN  IF ~(c.enabled \/ c.onlyonce) THEN r1
                 ELSE IF c.time.truthy /\ c.time.isdigit /\ c.time.hour < 0
                 THEN [r2 EXCEPT !.call.raised = TRUE]
                 ELSE LET r3 == IF c.time.truthy /\ c.time.isdigit THEN register_cron(r2) ELSE r2
                          r4 == IF c.onlyonce THEN consume_onlyonce(r3) ELSE r3
                      IN  start_if_jobs(r4)

----------------------------------------------------------------------------
(* Construction *)

\* LibraryScraper after construction; the writers hold some of the files of `files`.
ScraperInit(files) ==
    /\ observer = 0
    /\ alive = {}
    /\ nextH = 0
    /\ processed_paths = [h \in 1..MaxHandlers |-> {}]
    /\ monitor_paths = <<>>
    /\ exclude_paths = <<>>
    /\ timers = EmptyBag
    /\ locked \in SUBSET files
    /\ since = [d \in Dirs |-> DEBOUNCE_DELAY]
    /\ win = [d \in Dirs |-> 0]
    /\ scrapes = [d \in Dirs |-> [w \in Windows |-> 0]]
    /\ last = NoRun

\* Both plugins after construction, with an empty subscription store.
InitWith(files) ==
    /\ ScraperInit(files)
    /\ subscribes = <<>>
    /\ tmdb = NoData
    /\ digest = NoDigest
    /\ race = NoRace
    /\ reminder = NoReminder

\* history: a scrape invocation is counted for its directory and window
Counted(sc, d, w, k) ==
    IF k = 0 THEN sc
    ELSE [sc EXCEPT ![d][w] = Min(@ + k, 2)]

\* history: a window that opens under a reused name starts counting at 0
Opened(d, w) ==
    IF since[d] >= DEBOUNCE_DELAY THEN [scrapes EXCEPT ![d][w] = 0] ELSE scrapes

RetryCopies(B, d) ==
    SumCopies({t \in BagToSet(B) : t.kind = "retry" /\ t.dir = d}, B)

----------------------------------------------------------------------------
(* Filesystem events, delivered by the running observer's thread *)

\* the observer watches every monitored path recursively
Watched(p) ==
    \/ p = EmptyPath
    \/ \E i \in 1..Len(monitor_paths) : is_relative_to(p.dir, monitor_paths[i].path)

\* window names no pending retry chain of directory d carries
FreeWindows(d) == {w \in Windows : \A t \in RetryPending(d) : t.w # w}

\* the window an event on directory d belongs to: the one the running handler
\* opened less than DEBOUNCE_DELAY ago, or else a new one (0: no name is free)
WindowOf(d) ==
    IF since[d] < DEBOUNCE_DELAY THEN win[d]
    ELSE IF FreeWindows(d) = {} THEN 0
    ELSE CHOOSE w \in FreeWindows(d) : \A v \in FreeWindows(d) : w <= v

Deliver(p, out) ==
    LET h == observer
        d == p.dir
        w == IF d \in Dirs THEN WindowOf(d) ELSE 0
        e == _handle_event(h, p, processed_paths, exclude_paths, monitor_paths, locked, w, out)
    IN  /\ observer # 0
        /\ observer \in alive
        /\ Watched(p)
        /\ e.scraped = 0 => out = OutcomeOk
        /\ e.insert => w \in Windows
        /\ e.insert => RetryCopies(timers (+) e.spawn, d) <= MaxRetryTimers
        /\ processed_paths' =
              IF e.insert THEN [processed_paths EXCEPT ![h] = @ \cup {d}] ELSE processed_paths
        /\ timers' = timers (+) e.spawn
        /\ since' = IF e.insert /\ since[d] >= DEBOUNCE_DELAY
                    THEN [since EXCEPT ![d] = 0] ELSE since
        /\ win' = IF e.insert THEN [win EXCEPT ![d] = w] ELSE win
        /\ scrapes' = IF e.insert
                      THEN Counted(Opened(d, w), d, w, e.scraped) ELSE scrapes
        /\ last' = [op |-> e.op, dir |-> IF e.op = "ignored" THEN <<>> ELSE d,
                    by |-> "event",
                    unreadable |-> e.op \notin {"ignored", "suppressed"} /\ AnyLocked(d, locked),
                    sched |-> RetryCopies(e.spawn, d), scraped |-> e.scraped,
                    out |-> out, calls |-> e.calls, raised |-> e.raised,
                    mtype |-> Identified(e, d, monitor_paths, out).mtype,
                    sampled |-> Identified(e, d, monitor_paths, out).sampled]
        /\ UNCHANGED <<observer, alive, nextH, monitor_paths, exclude_paths, locked>>
        /\ UNCHANGED ovars

\* LibraryEventHandler.on_created(event): _handle_event(event.src_path)
on_created(paths) ==
    \E p \in paths, out \in Outcomes : Deliver(p, out)

\* LibraryEventHandler.on_moved(event): _handle_event(event.dest_path)
on_moved(paths) ==
    \E p \in paths, out \in Outcomes : Deliver(p, out)

----------------------------------------------------------------------------
(* Timer threads *)

Expired(t) == t \in BagToSet(timers) /\ t.left = 0

\* the eviction thread runs processed_paths.discard(dir_str) on its handler's set
EvictFires(d) ==
    \E t \in BagToSet(timers) :
        /\ Expired(t)
        /\ t.kind = "evict"
        /\ t.dir = d
        /\ processed_paths' = [processed_paths EXCEPT ![t.h] = @ \ {t.dir}]
        /\ timers' = timers (-) One(t)
        /\ race' = IF race.pc # "idle" /\ t.h = race.h /\ t.dir = race.dir
                   THEN [race EXCEPT !.evicted = TRUE] ELSE race
        /\ UNCHANGED <<observer, alive, nextH, monitor_paths, exclude_paths, locked,
                       since, win, scrapes, last>>
        /\ UNCHANGED <<dvars, reminder>>

\* the retry thread runs handle_media_directory(directory) again
RetryFires(d) ==
    \E t \in BagToSet(timers), out \in Outcomes :
        LET e == handle_media_directory(t.dir, exclude_paths, monitor_paths, locked,
                                        t.polls, t.w, out)
        IN  /\ Expired(t)
            /\ t.kind = "retry"
            /\ t.dir = d
            /\ e.scraped = 0 => out = OutcomeOk
            /\ timers' = (timers (-) One(t)) (+) e.spawn
            /\ scrapes' = Counted(scrapes, t.dir, t.w, e.scraped)
            /\ last' = [op |-> e.op, dir |-> t.dir, by |-> "timer",
                        unreadable |-> AnyLocked(t.dir, locked),
                        sched |-> RetryCopies(e.spawn, t.dir), scraped |-> e.scraped,
                        out |-> out, calls |-> e.calls, raised |-> e.raised,
                        mtype |-> Identified(e, t.dir, monitor_paths, out).mtype,
                        sampled |-> Identified(e, t.dir, monitor_paths, out).sampled]
            /\ UNCHANGED <<observer, alive, nextH, processed_paths, monitor_paths,
                           exclude_paths, locked, since, win>>
            /\ UNCHANGED ovars

\* One time unit passes: every waiting thread is one unit closer to running its
\* task.  A thread whose wait is over runs its task within the time unit.
Tick ==
    /\ \/ timers # EmptyBag
       \/ \E d \in Dirs : since[d] < DEBOUNCE_DELAY
    /\ \A t \in BagToSet(timers) : t.left > 0
    /\ timers' = AllWaited(timers)
    /\ since' = [d \in Dirs |-> Min(since[d] + 1, DEBOUNCE_DELAY)]
    /\ UNCHANGED <<observer, alive, nextH, processed_paths, monitor_paths,
                   exclude_paths, locked, win, scrapes, last>>
    /\ UNCHANGED ovars

----------------------------------------------------------------------------
(* Environment: writers lock and release media files *)

FileLocked(files) ==
    \E f \in files \ locked :
        /\ locked' = locked \cup {f}
        /\ UNCHANGED <<observer, alive, nextH, processed_paths, monitor_paths,
                       exclude_paths, timers, since, win, scrapes, last>>
        /\ UNCHANGED ovars

FileReleased(files) ==
    \E f \in files \cap locked :
        /\ locked' = locked \ {f}
        /\ UNCHANGED <<observer, alive, nextH, processed_paths, monitor_paths,
                       exclude_paths, timers, since, win, scrapes, last>>
        /\ UNCHANGED ovars

----------------------------------------------------------------------------
(* The observer thread inside _handle_event and _process_directory, one      *)
(* statement at a time, so that an eviction thread can run between two of    *)
(* them.  Each of `in`, add and discard on the set is one atomic operation   *)
(* of the interpreter.  The observer thread handles one event at a time, and *)
(* a run of the handler takes less than one time unit.                       *)

\* a membership test that never finds the directory
in_processed_paths_never(pp, h, d) == FALSE

\* line 55: dir_str in self.processed_paths
in_processed_paths(pp, h, d) == d \in pp[h]

\* lines 29-52: the event of a media file reaches _process_directory
HandlerEnters(paths) ==
    \E p \in paths :
        /\ race.pc = "idle"
        /\ observer # 0
        /\ observer \in alive
        /\ Watched(p)
        /\ p # EmptyPath
        /\ ~p.is_dir
        /\ Lower(p.suffix) \in RMT_MEDIAEXT
        /\ race' = [pc |-> "check", dir |-> p.dir, h |-> observer,
                    before |-> processed_paths[observer], evicted |-> FALSE]
        /\ UNCHANGED <<svars, dvars, reminder>>

\* lines 55-56: the test, and the return of a suppressed event
HandlerChecks ==
    /\ race.pc = "check"
    /\ IF in_processed_paths(processed_paths, race.h, race.dir)
       THEN /\ race' = [race EXCEPT !.pc = "done"]
            /\ last' = [NoRun EXCEPT !.op = "suppressed", !.dir = race.dir, !.by = "event"]
       ELSE /\ race' = [race EXCEPT !.pc = "add"]
            /\ last' = last
    /\ UNCHANGED <<observer, alive, nextH, processed_paths, monitor_paths, exclude_paths,
                   timers, locked, since, win, scrapes, dvars, reminder>>

\* line 57: self.processed_paths.add(dir_str)
HandlerAdds ==
    /\ race.pc = "add"
    /\ processed_paths' = [processed_paths EXCEPT ![race.h] = @ \cup {race.dir}]
    /\ race' = [race EXCEPT !.pc = "timer"]
    /\ UNCHANGED <<observer, alive, nextH, monitor_paths, exclude_paths, timers, locked,
                   since, win, scrapes, last, dvars, reminder>>

\* line 60: the eviction thread is started
HandlerStartsEviction ==
    LET d == race.dir
        w == WindowOf(d)
    IN  /\ race.pc = "timer"
        /\ w \in Windows
        /\ timers' = timers (+) One(EvictTimer(race.h, d))
        /\ scrapes' = Opened(d, w)
        /\ since' = IF since[d] >= DEBOUNCE_DELAY THEN [since EXCEPT ![d] = 0] ELSE since
        /\ win' = [win EXCEPT ![d] = w]
        /\ race' = [race EXCEPT !.pc = "handle"]
        /\ UNCHANGED <<observer, alive, nextH, processed_paths, monitor_paths,
                       exclude_paths, locked, last, dvars, reminder>>

\* line 63: self.plugin.handle_media_directory(directory)
HandlerScrapes ==
    \E out \in Outcomes :
        LET d == race.dir
            e == handle_media_directory(d, exclude_paths, monitor_paths, locked, 0, win[d], out)
        IN  /\ race.pc = "handle"
            /\ e.scraped = 0 => out = OutcomeOk
            /\ RetryCopies(timers (+) e.spawn, d) <= MaxRetryTimers
            /\ timers' = timers (+) e.spawn
            /\ scrapes' = Counted(scrapes, d, win[d], e.scraped)
            /\ last' = [op |-> e.op, dir |-> d, by |-> "event",
                        unreadable |-> AnyLocked(d, locked),
                        sched |-> RetryCopies(e.spawn, d), scraped |-> e.scraped,
                        out |-> out, calls |-> e.calls, raised |-> e.raised,
                        mtype |-> Identified(e, d, monitor_paths, out).mtype,
                        sampled |-> Identified(e, d, monitor_paths, out).sampled]
            /\ race' = [race EXCEPT !.pc = "done"]
            /\ UNCHANGED <<observer, alive, nextH, processed_paths, monitor_paths,
                           exclude_paths, locked, since, win, dvars, reminder>>

\* _handle_event returns to the observer thread
HandlerReturns ==
    /\ race.pc = "done"
    /\ race' = NoRace
    /\ UNCHANGED <<svars, dvars, reminder>>

\* time passes between two events
TickIdle == race.pc = "idle" /\ Tick

----------------------------------------------------------------------------
(* SubscribeReminder: the host's calls and the scheduler's thread *)

\* the host calls init_plugin with a configuration, or with none
ReminderInit(configs) ==
    \E config \in { <<c>> : c \in configs } \cup { <<>> } :
        /\ reminder' = reminder_init_plugin(reminder, config)
        /\ UNCHANGED <<svars, dvars, race>>

\* the host calls init_plugin with the configuration update_config saved
ReminderReload ==
    /\ reminder.saved # <<>>
    /\ reminder' = [reminder_init_plugin(reminder, reminder.saved) EXCEPT !.call.op = "reload"]
    /\ UNCHANGED <<svars, dvars, race>>

ReminderStop ==
    /\ reminder' = [reminder_stop_service(reminder) EXCEPT
                       !.call = [NoCall EXCEPT !.op = "stop_service"]]
    /\ UNCHANGED <<svars, dvars, race>>

\* the jobs of `jobs` but the first "date" job
RECURSIVE WithoutDate(_)
WithoutDate(jobs) ==
    IF jobs = <<>> THEN <<>>
    ELSE IF Head(jobs) = "date" THEN Tail(jobs)
    ELSE <<Head(jobs)>> \o WithoutDate(Tail(jobs))

\* the running scheduler fires a job: __send_notify runs; a date job is gone
\* once it has fired
JobFires ==
    \E i \in 1..Len(reminder.jobs) :
        /\ reminder.running
        /\ digest' = __send_notify(subscribes, tmdb)
        /\ reminder' = IF reminder.jobs[i] = "date"
                       THEN [reminder EXCEPT !.jobs = WithoutDate(@)]
                       ELSE reminder
        /\ UNCHANGED <<svars, subscribes, tmdb, race>>

----------------------------------------------------------------------------
(* Lifecycle *)

\* Thread.join() raises RuntimeError on a thread that was never started.  An
\* Observer the plugin still references is not alive only if its start failed.
JoinRaises(o, al) == o \notin al

\* a stop_service that forgets the observer without stopping it
stop_service_effect_forgets(o, al) == [observer |-> 0, alive |-> al, raised |-> FALSE]

\* stop_service: [observer, alive, raised] after the call
stop_service_effect(o, al) ==
    IF o # 0
    THEN IF JoinRaises(o, al)
         THEN [observer |-> o, alive |-> al, raised |-> TRUE]
         ELSE [observer |-> 0, alive |-> al \ {o}, raised |-> FALSE]
    ELSE [observer |-> 0, alive |-> al, raised |-> FALSE]

\* stop_service that would cancel the background_task threads
threads_after_stop_cancelled(B) == EmptyBag

\* stop_service stops and joins the observer only: background_task keeps no
\* reference to the threads it starts, so all of them go on waiting
threads_after_stop(B) == B

stop_service ==
    LET s == stop_service_effect(observer, alive)
    IN  /\ observer' = s.observer
        /\ alive' = s.alive
        /\ timers' = threads_after_stop(timers)
        /\ last' = [NoRun EXCEPT !.op = "stop_service", !.by = "host", !.raised = s.raised]
        /\ UNCHANGED <<nextH, processed_paths, monitor_paths, exclude_paths,
                       locked, since, win, scrapes>>
        /\ UNCHANGED ovars

\* start_file_monitor: builds Observer and handler n + 1; `started` is whether
\* schedule() and start() went through.  An exception of theirs is caught and
\* logged, and leaves the Observer that was built in self._observer.
start_file_monitor_effect(o, al, n, started) ==
    IF o # 0 /\ JoinRaises(o, al)
    THEN [observer |-> o, alive |-> al, raised |-> TRUE]
    ELSE [observer |-> n + 1,
          alive |-> IF started THEN (al \ {o}) \cup {n + 1} ELSE al \ {o},
          raised |-> FALSE]

init_plugin(config, started) ==
    LET s == stop_service_effect(observer, alive)
        loads == ~s.raised /\ config # NoConfig
        starts == loads /\ config.enabled
        m == IF starts
             THEN start_file_monitor_effect(s.observer, s.alive, nextH, started)
             ELSE s
    IN  /\ starts => nextH < MaxHandlers
        /\ ~starts => started
        /\ observer' = m.observer
        /\ alive' = m.alive
        /\ nextH' = IF starts THEN nextH + 1 ELSE nextH
        /\ monitor_paths' = IF loads THEN config.monitor_paths ELSE monitor_paths
        /\ exclude_paths' = IF loads THEN config.exclude_paths ELSE exclude_paths
        /\ since' = IF starts THEN [d \in Dirs |-> DEBOUNCE_DELAY] ELSE since
        /\ timers' = threads_after_stop(timers)
        /\ last' = [NoRun EXCEPT !.op = "init_plugin", !.by = "host", !.raised = m.raised]
        /\ UNCHANGED <<processed_paths, locked, win, scrapes>>
        /\ UNCHANGED ovars

InitPlugin(configs) ==
    \E config \in configs, started \in BOOLEAN : init_plugin(config, started)

\* the first init_plugin of a fresh plugin, with a monitor that starts
InitPluginOnce(configs) ==
    \E config \in configs :
        /\ nextH = 0
        /\ config # NoConfig
        /\ config.enabled
        /\ init_plugin(config, TRUE)

----------------------------------------------------------------------------
(* Specification of the debouncer: directory DA under one configuration and  *)
(* one running monitor; events, timer threads, time, the writer of the file. *)

CfgPlain == [enabled |-> TRUE, monitor_paths |-> MonPlain, exclude_paths |-> ExclTemp]

Init == InitWith(FilesIn({DA}))

Next ==
    \/ InitPluginOnce({CfgPlain})
    \/ on_created(EventsIn({DA}))
    \/ on_moved(EventsIn({DA}))
    \/ EvictFires(DA)
    \/ RetryFires(DA)
    \/ Tick
    \/ FileLocked(FilesIn({DA}))
    \/ FileReleased(FilesIn({DA}))

Spec == Init /\ [][Next]_vars

\* Every thread is scheduled: a timer thread whose wait is over runs its task,
\* and time passes.
SpecFair ==
    /\ Spec
    /\ WF_vars(Tick)
    /\ WF_vars(EvictFires(DA))
    /\ WF_vars(RetryFires(DA))

----------------------------------------------------------------------------
(* Specification of the exclusion check: directory DX, under a configuration *)
(* that stays the one the plugin was initialised with.                       *)

InitExclude == InitWith(FilesIn({DX}))

NextExclude ==
    \/ InitPluginOnce(Configs)
    \/ on_created(EventsIn({DX}))
    \/ on_moved(EventsIn({DX}))
    \/ EvictFires(DX)
    \/ RetryFires(DX)
    \/ Tick
    \/ FileLocked(FilesIn({DX}))
    \/ FileReleased(FilesIn({DX}))

SpecExclude == InitExclude /\ [][NextExclude]_vars

----------------------------------------------------------------------------
(* Specification of the lifecycle: init_plugin and stop_service in any       *)
(* order, with monitors that start or fail to start, while events arrive on  *)
(* DA, timer threads run and the writer of DA's file finishes.               *)

LifeConfigs ==
    { NoConfig, CfgPlain,
      [enabled |-> FALSE, monitor_paths |-> MonPlain, exclude_paths |-> ExclTemp] }

InitLife == InitWith(FilesIn({DA}))

NextLife ==
    \/ InitPlugin(LifeConfigs)
    \/ stop_service
    \/ on_created({File(DA, "f1", ".mkv")})
    \/ EvictFires(DA)
    \/ RetryFires(DA)
    \/ Tick
    \/ FileReleased(FilesIn({DA}))

SpecLife == InitLife /\ [][NextLife]_vars

----------------------------------------------------------------------------
(* Specification of the daily digest: the store and the host's data are any  *)
(* of the modelled ones, and the scheduler runs __send_notify.               *)

\* the cron job (or the immediate job) fires
DailyJob ==
    /\ ~digest.ran
    /\ digest' = __send_notify(subscribes, tmdb)
    /\ UNCHANGED <<svars, subscribes, tmdb, race, reminder>>

InitDigest ==
    /\ ScraperInit({})
    /\ subscribes \in Stores
    /\ tmdb \in TmdbData
    /\ digest = NoDigest
    /\ race = NoRace
    /\ reminder = NoReminder

NextDigest == DailyJob

SpecDigest == InitDigest /\ [][NextDigest]_vars

----------------------------------------------------------------------------
(* Specification of the race on processed_paths: events on DA handled one    *)
(* statement at a time, the eviction threads, time; no file is locked.       *)

InitRace == InitWith({})

NextRace ==
    \/ InitPluginOnce({CfgPlain})
    \/ HandlerEnters(EventsIn({DA}))
    \/ HandlerChecks
    \/ HandlerAdds
    \/ HandlerStartsEviction
    \/ HandlerScrapes
    \/ HandlerReturns
    \/ EvictFires(DA)
    \/ TickIdle

SpecRace == InitRace /\ [][NextRace]_vars

----------------------------------------------------------------------------
(* Specification of SubscribeReminder's lifecycle: init_plugin with any      *)
(* configuration, reloads of the saved one, stop_service, jobs that fire.    *)

InitReminder == InitWith({})

NextReminder ==
    \/ ReminderInit(ReminderConfigs)
    \/ ReminderReload
    \/ ReminderStop
    \/ JobFires

SpecReminder == InitReminder /\ [][NextReminder]_vars

----------------------------------------------------------------------------
(* Specification of the media type: events on DA under monitored paths with  *)
(* and without type hints; no file is locked.                                *)

HintConfigs ==
    { [enabled |-> TRUE, monitor_paths |-> m, exclude_paths |-> ExclTemp] :
        m \in {MonPlain, MonTyped, MonNested, MonNestedInner, MonElsewhere} }

InitIdentify == InitWith({})

NextIdentify ==
    \/ InitPluginOnce(HintConfigs)
    \/ on_created(EventsIn({DA}))
    \/ on_moved(EventsIn({DA}))
    \/ EvictFires(DA)
    \/ Tick

SpecIdentify == InitIdentify /\ [][NextIdentify]_vars

----------------------------------------------------------------------------
(* Properties of the debouncer *)

\* d is equal to or nested under one of the excluded paths
UnderExcluded(d, excl) ==
    \E i \in 1..Len(excl) : \E k \in 0..Len(d) : SubSeq(d, 1, k) = excl[i]

\* a retry chain of directory d started in window w is pending
HasChain(d, w) == \E t \in RetryPending(d) : t.w = w

\* C1: all the events on a directory that the handler receives within
\* DEBOUNCE_DELAY of the first of them lead to at most one invocation of
\* _scrape_directory, the invocations made by readiness retries included.
C1_OneScrapePerWindow ==
    \A d \in Dirs : \A w \in Windows : scrapes[d][w] <= 1

\* a second event arrived in a window in which the scrape was already issued
C1_Witness ==
    /\ last.op = "suppressed"
    /\ last.dir = DA
    /\ since[DA] < DEBOUNCE_DELAY
    /\ scrapes[DA][win[DA]] = 1

\* C2: under the configuration the plugin was initialised with, a directory equal
\* to or nested under an excluded path is never scraped and never has a readiness
\* retry pending, whatever events arrive and whether or not its file is locked.
C2_ExcludedNeverScraped ==
    \A d \in Dirs :
        UnderExcluded(d, exclude_paths) =>
            /\ \A w \in Windows : scrapes[d][w] = 0
            /\ RetryPending(d) = {}
            /\ ~(last.dir = d /\ last.op \in {"retry", "scrape"})

\* an event on DX, nested under the excluded path, arrived while its file was locked
C2_Witness ==
    /\ exclude_paths = ExclTemp
    /\ last.op = "excluded"
    /\ last.dir = DX
    /\ last.unreadable
    /\ DX \in processed_paths[observer]

\* C3, liveness: once the file is readable, a pending retry chain that has failed
\* n probes, for every n, invokes the scrape step unless the file is locked again.
C3_ReleasedLeadsToScrape ==
    \A w \in Windows : \A n \in 1..PollsCap :
        ((\E t \in RetryPending(DA) : t.w = w /\ t.polls = n) /\ ~AnyLocked(DA, locked))
            ~> (scrapes[DA][w] >= 1 \/ AnyLocked(DA, locked))

\* C3, no cap: while the file is locked, a pending retry chain stays pending
C3_NoCap ==
    [][\A w \in Windows :
          (HasChain(DA, w) /\ AnyLocked(DA, locked)) => HasChain(DA, w)']_vars

\* C3, fixed delay: every retry thread starts with RETRY_DELAY to wait, whatever
\* the number of probes its chain has failed
C3_FixedDelay ==
    [][\A t \in BagToSet(timers') :
          t.kind = "retry" =>
              \/ t.left = RETRY_DELAY
              \/ t \in BagToSet(timers)
              \/ [t EXCEPT !.left = t.left + 1] \in BagToSet(timers)]_vars

C5_AtMostThreeRetries ==
    \A d \in Dirs : \A t \in RetryPending(d) : t.polls <= DOC_MAX_RETRIES

\* C10: a run that reaches the scrape step ends there: no exception leaves it,
\* it schedules no retry, its chain has nothing pending, obtain_images and
\* scrape_metadata are called only after the recognizer returned an identity.
C10_ScrapeState ==
    /\ last.scraped = 1 =>
          /\ ~last.raised
          /\ last.sched = 0
          /\ \A i \in 1..Len(last.calls) :
                last.calls[i] \in {"obtain_images", "scrape_metadata"}
                    => last.out.recog = "info"
    /\ \A d \in Dirs : \A w \in Windows : scrapes[d][w] >= 1 => ~HasChain(d, w)

\* C10, frame: a retry thread that ends leaves processed_paths as it was
C10_ScrapeFrame ==
    \A d \in Dirs :
        (\E t \in RetryPending(d) : timers' = timers (-) One(t))
            => processed_paths' = processed_paths

\* C10: once handle_media_directory has reached the scrape step the chain is
\* terminal whatever the outcome of the host calls.
C10_ScrapeIsTerminal ==
    /\ []C10_ScrapeState
    /\ [][C10_ScrapeFrame]_vars

\* a retry thread scraped, obtain_images raised, and nothing came of it
C10_Witness ==
    /\ last.op = "scrape"
    /\ last.by = "timer"
    /\ last.out.images = "raise"
    /\ last.calls = <<"recognize_media", "obtain_images">>
    /\ ~last.raised
    /\ RetryPending(DA) = {}

----------------------------------------------------------------------------
(* Properties of the digest *)

\* the episode numbers of subscription s that the host's data dates today
AirsToday(s, data) ==
    IF s.tmdbid \in DOMAIN data.eps /\ data.eps[s.tmdbid].status = "ok"
    THEN LET rows == data.eps[s.tmdbid].rows
         IN  { rows[i].episode_number : i \in { j \in 1..Len(rows) : rows[j].air_date = Today } }
    ELSE {}

\* the movie of subscription s is released today according to the host's data
ReleasedToday(s, data) ==
    /\ s.tmdbid \in DOMAIN data.rel
    /\ data.rel[s.tmdbid].status = "ok"
    /\ data.rel[s.tmdbid].release_date = Today

\* subscription s matches today
MatchesToday(s, data) ==
    IF s.type = "tv"
    THEN s.tmdbid # 0 /\ s.season # 0 /\ AirsToday(s, data) # {}
    ELSE s.tmdbid # 0 /\ ReleasedToday(s, data)

InStore(s) == \E i \in 1..Len(subscribes) : subscribes[i] = s

\* the head lines of the digest, and those of kind k that name subscription s
HeadLines == { i \in 1..Len(digest.text) : digest.text[i].kind \in {"tv", "movie"} }
HeadsOf(k, s) == { i \in HeadLines : digest.text[i].kind = k /\ digest.text[i].name = DisplayName(s) }

\* C6: a run in which no subscription of the store matches today calls
\* post_message not at all; a run that finds the store empty makes no episode
\* and no release lookup either.
C6_NoMatchNoNotification ==
    digest.ran =>
        /\ (\A i \in 1..Len(subscribes) : ~MatchesToday(subscribes[i], tmdb))
              => digest.posted = <<>>
        /\ subscribes = <<>> => (digest.lookups = <<>> /\ digest.posted = <<>>)

\* the run looked up Show B and Movie A, neither is out today, nothing was sent
C6_Witness ==
    /\ digest.ran
    /\ ~digest.raised
    /\ subscribes = <<ShowB, MovieA>>
    /\ Len(digest.lookups) = 2
    /\ ~MatchesToday(ShowB, tmdb)
    /\ ~MatchesToday(MovieA, tmdb)
    /\ digest.posted = <<>>

\* How a reader takes an episode label: "Enn" is episode nn, "Eaa-Ebb" the
\* episodes aa to bb.
DigitValue(c) == CHOOSE k \in 0..9 : Digits[k + 1] = c

RECURSIVE Number(_)
Number(s) == IF s = <<>> THEN 0 ELSE Number(SubSeq(s, 1, Len(s) - 1)) * 10 + DigitValue(s[Len(s)])

Denotes(label) ==
    LET dashes == { i \in 1..Len(label) : label[i] = "-" }
    IN  IF dashes = {} THEN { Number(Tail(label)) }
        ELSE LET i == CHOOSE j \in dashes : TRUE
             IN  Number(SubSeq(label, 2, i - 1)) .. Number(SubSeq(label, i + 2, Len(label)))

\* n below 100 written with two digits
TwoDigits(n) == <<Digits[(n \div 10) + 1], Digits[(n % 10) + 1]>>

\* the episode labels of the digest, each with the episodes of its show dated today
LabelledShows ==
    { [label |-> digest.text[i + 1].episode, airs |-> AirsToday(Catalogue[k], tmdb)] :
        <<i, k>> \in { p \in HeadLines \X (1..Len(Catalogue)) :
                          /\ digest.text[p[1]].kind = "tv"
                          /\ digest.text[p[1]].name = DisplayName(Catalogue[p[2]]) } }

\* C7, format: one episode n out today is labelled "Enn", a contiguous run a..b
\* is labelled "Eaa-Ebb"
C7_Format ==
    (digest.ran /\ ~digest.raised) =>
        \A e \in LabelledShows :
            /\ \A n \in e.airs : e.airs = {n} => e.label = <<"E">> \o TwoDigits(n)
            /\ \A a, b \in e.airs :
                  (a < b /\ e.airs = a..b)
                      => e.label = <<"E">> \o TwoDigits(a) \o <<"-", "E">> \o TwoDigits(b)

\* C7, meaning: the label denotes exactly the episodes out today
C7_DenotesExactly ==
    (digest.ran /\ ~digest.raised) =>
        \A e \in LabelledShows : Denotes(e.label) = e.airs

\* C7: the episode label of a TV block is "Enn" for a single episode n out today
\* and "Eaa-Ebb" for a contiguous run a..b, and it denotes exactly the set of
\* the episodes out today.
C7_EpisodeLabel ==
    /\ C7_Format
    /\ C7_DenotesExactly

LookupOf(s, data) ==
    IF s.type = "tv" THEN tmdb_episodes(data, s.tmdbid, s.season) ELSE recognize_movie(data, s.tmdbid)

\* subscription s has what the run needs to look it up
Complete(s) == IF s.type = "tv" THEN s.tmdbid # 0 /\ s.season # 0 ELSE s.tmdbid # 0

\* C11, unavailable data: a lookup that returns nothing leaves the other
\* subscriptions their blocks
C11_UnavailableSkipped ==
    (digest.ran /\ \A i \in 1..Len(subscribes) :
                      Complete(subscribes[i]) => LookupOf(subscribes[i], tmdb).status # "raise") =>
        /\ Len(digest.lookups) = Cardinality({ i \in 1..Len(subscribes) : Complete(subscribes[i]) })
        /\ \A i \in 1..Len(subscribes) :
              MatchesToday(subscribes[i], tmdb) =>
                  /\ HeadsOf(subscribes[i].type, subscribes[i]) # {}
                  /\ Len(digest.posted) = 1

\* C11: a lookup that fails (returns nothing, or raises) counts as no match for
\* its subscription only: the run looks up every other subscription, and every
\* subscription that matches today has its block in a digest that is sent.
C11_FailedLookupSkipped ==
    digest.ran =>
        /\ ~digest.raised
        /\ Len(digest.lookups) = Cardinality({ i \in 1..Len(subscribes) : Complete(subscribes[i]) })
        /\ \A i \in 1..Len(subscribes) :
              MatchesToday(subscribes[i], tmdb) =>
                  /\ HeadsOf(subscribes[i].type, subscribes[i]) # {}
                  /\ Len(digest.posted) = 1

----------------------------------------------------------------------------
(* Properties of the lifecycle *)

\* C9: every init_plugin and stop_service call returns normally, also after a
\* monitor that failed to start.
C9_LifecycleNeverRaises ==
    last.op \in {"init_plugin", "stop_service"} => ~last.raised


\* a step in which stop_service ran
StopStep == last'.op = "stop_service" /\ (last' # last \/ observer' # observer)

\* C12: stop_service tears down the observer only.  The eviction and retry
\* threads started before it are all still there after it, processed_paths is
\* as it was, and a retry thread whose wait is over runs handle_media_directory
\* whether or not an observer is left.
C12_StopLeavesTimers ==
    /\ [][StopStep => (timers' = timers /\ processed_paths' = processed_paths)]_vars
    /\ [](\A t \in RetryPending(DA) : t.left = 0 => ENABLED RetryFires(DA))

\* a retry thread scraped DA after stop_service had torn the observer down
C12_Witness ==
    /\ observer = 0
    /\ nextH >= 1
    /\ last.op = "scrape"
    /\ last.by = "timer"
    /\ last.scraped = 1
    /\ last.dir = DA

----------------------------------------------------------------------------
(* Properties of the debounce set *)

\* the eviction threads waiting to discard directory d from handler h's set
EvictPending(h, d) == { t \in BagToSet(timers) : t.kind = "evict" /\ t.h = h /\ t.dir = d }

\* a step in which an event was suppressed by the check of processed_paths
SuppressedStep == last'.op = "suppressed" /\ last' # last

\* C13, pairing: a directory is in a handler's processed_paths exactly while one
\* eviction thread for it is waiting, and that thread is due DEBOUNCE_DELAY
\* after the insertion
C13_OneEvictionPerInsertion ==
    \A h \in 1..MaxHandlers : \A d \in Dirs :
        /\ SumCopies(EvictPending(h, d), timers) = IF d \in processed_paths[h] THEN 1 ELSE 0
        /\ \A t \in EvictPending(h, d) : h = observer => t.left + since[d] = DEBOUNCE_DELAY

\* C13, suppressed events: an event that finds its directory in processed_paths
\* inserts nothing, starts no thread and leaves the window as it is
C13_SuppressedChangesNothing ==
    [][SuppressedStep =>
          /\ processed_paths' = processed_paths
          /\ timers' = timers
          /\ since' = since
          /\ win' = win]_vars

\* C13, liveness: an inserted directory is removed again
C13_EventuallyEvicted ==
    \A h \in 1..MaxHandlers : \A d \in Dirs :
        (d \in processed_paths[h]) ~> (d \notin processed_paths[h])

\* C13: every insertion into processed_paths comes with exactly one eviction
\* thread of DEBOUNCE_DELAY, so the directory leaves the set DEBOUNCE_DELAY after
\* the event that inserted it, and an event that finds it in the set neither
\* inserts it again nor starts a thread nor extends the window.
C13_InsertionPairedWithEviction ==
    /\ []C13_OneEvictionPerInsertion
    /\ C13_SuppressedChangesNothing
    /\ C13_EventuallyEvicted

\* an event was suppressed 3 time units into DA's window; the one eviction
\* thread is still due at the end of the window
C13_Witness ==
    /\ last.op = "suppressed"
    /\ last.dir = DA
    /\ observer # 0
    /\ DA \in processed_paths[observer]
    /\ since[DA] = 3
    /\ \E t \in EvictPending(observer, DA) : t.left = DEBOUNCE_DELAY - 3

----------------------------------------------------------------------------
(* Properties of the race between the handler and an eviction thread *)

\* The event handled in one piece on a set that holds `members` for its handler:
\* what the handler does, and the set it leaves after the eviction (if the
\* eviction comes second)
Serial(members, evictedAfter) ==
    LET a == _process_directory(race.h, race.dir,
                                [processed_paths EXCEPT ![race.h] = members],
                                exclude_paths, monitor_paths, locked, 0, OutcomeOk)
        left == IF a.insert THEN members \cup {race.dir} ELSE members
    IN  [op |-> a.op, scraped |-> a.scraped,
         members |-> IF evictedAfter THEN left \ {race.dir} ELSE left]

\* the run of the handler that just ended did what the serial run r does
SameAs(r) ==
    /\ last.op = r.op
    /\ last.scraped = r.scraped
    /\ processed_paths[race.h] = r.members

\* C14: a run of the handler that an eviction of the same directory cuts into
\* ends as if the event had come wholly before the eviction (suppressed) or
\* wholly after it (handled as a fresh event), so it makes at most one scrape
\* attempt; outside the handler a directory is in processed_paths exactly while
\* one eviction thread for it is waiting.
C14_RaceIsSerializable ==
    /\ race.pc = "done" =>
          /\ \/ SameAs(Serial(race.before, race.evicted))
             \/ race.evicted /\ SameAs(Serial(race.before \ {race.dir}, FALSE))
          /\ last.scraped <= 1
    /\ race.pc \in {"idle", "done"} =>
          \A h \in 1..MaxHandlers : \A d \in Dirs :
              SumCopies(EvictPending(h, d), timers) = IF d \in processed_paths[h] THEN 1 ELSE 0

\* the eviction ran between the arrival of the event and the test of line 55:
\* the event was handled as a fresh one
C14_Witness ==
    /\ race.pc = "done"
    /\ race.evicted
    /\ DA \in race.before
    /\ last.op = "scrape"
    /\ DA \in processed_paths[race.h]

\* the eviction ran after the test of line 55: the event was suppressed
C14_WitnessSuppressed ==
    /\ race.pc = "done"
    /\ race.evicted
    /\ last.op = "suppressed"
    /\ DA \notin processed_paths[race.h]

----------------------------------------------------------------------------
(* Properties of SubscribeReminder's lifecycle *)

\* the last call was init_plugin with a configuration; GivenConfig is that configuration
InitCalled == reminder.call.op \in {"init_plugin", "reload"} /\ reminder.call.config # <<>>
GivenConfig == reminder.call.config[1]

\* the number of jobs of kind k the scheduler holds
JobsOf(k) == Cardinality({ i \in 1..Len(reminder.jobs) : reminder.jobs[i] = k })

\* the configured send hour gives no valid daily cron schedule
NoValidHour(t) == ~t.truthy \/ ~t.isdigit \/ t.hour \notin CronHours

\* C15, the number out of range: from_crontab raises inside the try, the
\* message is put, no cron job is registered, the call returns
C15_OutOfRangeReported ==
    (InitCalled /\ GivenConfig.enabled /\ GivenConfig.time.isdigit
                /\ GivenConfig.time.hour >= 0 /\ GivenConfig.time.hour \notin CronHours) =>
        /\ reminder.call.messages = 1
        /\ reminder.call.cron_added = 0
        /\ JobsOf("cron") = 0
        /\ ~reminder.call.raised

\* C15: init_plugin with the plugin enabled and a send hour that gives no valid
\* daily cron schedule (not a number, empty, a number out of range) puts one
\* system message, registers no cron job and returns without raising.
C15_BadHourReported ==
    (InitCalled /\ GivenConfig.enabled /\ NoValidHour(GivenConfig.time)) =>
        /\ reminder.call.messages = 1
        /\ reminder.call.cron_added = 0
        /\ JobsOf("cron") = 0
        /\ ~reminder.call.raised

C20_WitnessReload ==
    /\ reminder.call.op = "reload"
    /\ reminder.call.date_added = 0
    /\ JobsOf("date") = 0

----------------------------------------------------------------------------
(* Properties of the event filter *)

\* what the running handler does with path p now
HandledNow(p) ==
    _handle_event(observer, p, processed_paths, exclude_paths, monitor_paths, locked,
                  0, OutcomeOk)

\* C16, the filter: the empty path, a directory (whatever its suffix) and a file
\* that is no media file end in the early returns of lines 39-45
C16_IgnoredEarly ==
    observer # 0 =>
        \A p \in IgnoredPaths :
            /\ (p = EmptyPath \/ p.is_dir \/ p.suffix \notin {".mkv", ".MKV", ".mp4", ".MP4"})
            /\ HandledNow(p).op = "ignored"
            /\ ~HandledNow(p).insert
            /\ HandledNow(p).spawn = EmptyBag
            /\ HandledNow(p).scraped = 0
            /\ HandledNow(p).calls = <<>>

\* a step in which an event was ignored
IgnoredStep == last'.op = "ignored" /\ last' # last

\* C16, frame: the step of an ignored event changes neither processed_paths nor
\* the threads nor the window, and runs nothing of handle_media_directory
C16_IgnoredFrame ==
    [][IgnoredStep =>
          /\ processed_paths' = processed_paths
          /\ timers' = timers
          /\ since' = since
          /\ win' = win
          /\ scrapes' = scrapes
          /\ last'.sched = 0
          /\ last'.scraped = 0
          /\ last'.calls = <<>>]_vars

\* C16: an event whose path is empty, a directory, or a file whose lower-cased
\* suffix is not in RMT_MEDIAEXT changes nothing: processed_paths stays as it
\* is, no thread is started, and neither the exclusion check nor the readiness
\* probe nor the scrape step runs.
C16_IgnoredEventChangesNothing ==
    /\ []C16_IgnoredEarly
    /\ C16_IgnoredFrame

\* an event was ignored in the middle of DA's window, while a retry was pending
C16_Witness ==
    /\ last.op = "ignored"
    /\ observer # 0
    /\ DA \in processed_paths[observer]
    /\ since[DA] = 1
    /\ RetryPending(DA) # {}

----------------------------------------------------------------------------
(* Properties of the media type *)

\* the entries of monitor_paths that contain directory d and carry a hint
Hinting(d) ==
    { i \in 1..Len(monitor_paths) :
        is_relative_to(d, monitor_paths[i].path) /\ monitor_paths[i].mtype # "none" }

\* of those, the entries with the longest path: the monitored path d belongs to
\* most specifically
MostSpecific(d) ==
    { i \in Hinting(d) :
        \A j \in Hinting(d) : Len(monitor_paths[j].path) <= Len(monitor_paths[i].path) }

\* C17, what the loop does: the first entry of monitor_paths, in the order of
\* the configuration, that contains the directory and carries a hint decides
C17_FirstHintInOrder ==
    (last.op = "scrape" /\ Hinting(last.dir) # {}) =>
        /\ \E i \in Hinting(last.dir) :
              /\ \A j \in Hinting(last.dir) : i <= j
              /\ last.mtype = monitor_paths[i].mtype
        /\ ~last.sampled

\* C17: the recognition of a scraped directory under a monitored path with a
\* type hint is asked with the hint of the monitored path the directory belongs
\* to most specifically, and samples no file; only if no monitored path that
\* contains the directory has a hint is a media file sampled.
C17_HintOfMostSpecificPath ==
    last.op = "scrape" =>
        /\ Hinting(last.dir) # {} =>
              /\ \E i \in MostSpecific(last.dir) : last.mtype = monitor_paths[i].mtype
              /\ ~last.sampled
        /\ Hinting(last.dir) = {} =>
              /\ last.sampled
              /\ last.mtype = "auto"

----------------------------------------------------------------------------
(* Properties of the retry threads *)

\* C18: at every moment at most one handle_media_directory retry is pending for
\* a directory, whatever events arrive while its file stays locked, also after
\* the directory was discarded from processed_paths.
C18_OneRetryPerDirectory ==
    \A d \in Dirs : NumRetryPending(d) <= 1

----------------------------------------------------------------------------
(* Properties of the observer *)

\* C19, state: at most one observer is running, it is the one the plugin holds,
\* and none is running after stop_service
C19_AtMostOneRunning ==
    /\ Cardinality(alive) <= 1
    /\ alive \subseteq {observer}
    /\ last.op = "stop_service" => alive = {}

\* C19, steps: init_plugin without a configuration or with enabled false leaves
\* no observer running; an observer starts running only in a step that leaves
\* none of the earlier ones running
C19_StartAfterStop ==
    [][/\ \A config \in LifeConfigs :
             (init_plugin(config, TRUE) /\ (config = NoConfig \/ ~config.enabled))
                 => alive' = {}
       /\ alive' \ alive # {} => alive' \cap alive = {}]_vars

\* C19: over any sequence of init_plugin and stop_service calls at most one
\* observer the plugin started is running; none is running after stop_service,
\* after init_plugin with no configuration or with enabled false; a new one is
\* started only after the one before was stopped and joined.
C19_OneObserver ==
    /\ []C19_AtMostOneRunning
    /\ C19_StartAfterStop

\* the second observer is running, the first was stopped
C19_Witness ==
    /\ observer = 2
    /\ alive = {2}
    /\ last.op = "init_plugin"
    /\ ~last.raised

====
